---------------------------- MODULE Spec2Model ----------------------------
(***************************************************************************)
(* Model of backend/main.py of nocdn/media: the intake directory, the      *)
(* deduplicating serial ingest queue (_enqueue / _worker), the per-file    *)
(* pipeline (process / generate_hls), the file watcher (VideoHandler), the  *)
(* catalog (list_media_dirs / current / delete_media) and the byte-range   *)
(* streamer (stream_video).                                                *)
(*                                                                         *)
(* Threads are modelled at the granularity of their blocking calls: one    *)
(* action per queue.get, per size poll (getsize + sleep), per external     *)
(* tool invocation (the step is the return of the tool and the Python code *)
(* that follows it up to the launch of the next tool), and per lock-guarded*)
(* block.  A local variable is reset to its initial value once the code    *)
(* no longer reads it.                                                     *)
(***************************************************************************)
EXTENDS Integers, Sequences, FiniteSets, TLC

\* ------------------------------------------------------------------ bounds
MaxSize == 1
MaxUploads == 2
MaxEnqueues == 2
MaxEvents == 3
MaxByte == 2
MaxTime == 3

\* ------------------------------------------------------------ path algebra
\* An intake path is modelled by what os.path.splitext(os.path.basename(p))
\* returns for it: its base name and its extension as written.
P_a_mkv == [name |-> "a", ext |-> ".mkv"]
P_a_MP4 == [name |-> "a", ext |-> ".MP4"]
P_n_txt == [name |-> "n", ext |-> ".txt"]
Paths == {P_a_mkv, P_a_MP4, P_n_txt}
NoPath == [name |-> "", ext |-> ""]

\* str.lower() on the extensions that occur
Lower(e) ==
  CASE e = ".MP4" -> ".mp4"
    [] e = ".MKV" -> ".mkv"
    [] OTHER -> e

\* the set literal {".mkv", ".mp4"} of process and _maybe_process
VideoExts == {".mkv", ".mp4"}

\* name = os.path.splitext(os.path.basename(src))[0]
TitleOf(p) == p.name

Titles == {TitleOf(p) : p \in Paths}

\* the paths _maybe_process, the only caller of _enqueue, lets through
VideoPaths == {p \in Paths : Lower(p.ext) \in VideoExts}

\* two worker threads instead of one
TwoWorkers == {1, 2}

\* the one worker thread started at import time
Workers == {1}

VARIABLES
  uploaded,    \* the files present in UPLOADS_DIR
  fsize,       \* os.path.getsize of each of them (0 when absent)
  nUploads,    \* files created so far in UPLOADS_DIR (bounded by MaxUploads)
  mediaDirs,   \* titles t with a directory MEDIA_DIR/t
  mtime,       \* os.path.getmtime of each of them (0 when absent); only the order matters
  mp4,         \* titles t with MEDIA_DIR/t/t.mp4
  vtt,         \* titles t with MEDIA_DIR/t/t.vtt
  hls,         \* titles t with MEDIA_DIR/t/hls/index.m3u8
  PROCESS_Q,   \* _PROCESS_Q, oldest first
  QUEUED,      \* _QUEUED
  wk,          \* per worker thread: its position and the locals of _worker/process
  nEnq,        \* history: the number of _enqueue calls so far (bounded by MaxEnqueues)
  accepted,    \* history: the paths _enqueue put on the queue, in order
  started,     \* history: the paths _PROCESS_Q.get() returned, in order
  tobj,        \* the threading.Timer objects created by _schedule, by number
  timers,      \* VideoHandler._timers: path -> number of a Timer, 0 for no entry
  nTimers,     \* the number of Timer objects created so far
  age,         \* per path: the time since its latest create/modify event, capped at Debounce
  nEvents,     \* the number of watcher events delivered so far (bounded by MaxEvents)
  lastHandoff, \* history: the latest call of _enqueue by the handler
  mp4Bytes,    \* os.path.getsize of each title's progressive container
  rq,          \* the /video request in flight: its response and its chunk iterator
  listing      \* the /media or /current request in flight: its response

ingestVars == <<uploaded, fsize, nUploads, mediaDirs, mtime, mp4, vtt, hls,
                PROCESS_Q, QUEUED, wk, nEnq, accepted, started>>

watchVars == <<tobj, timers, nTimers, age, nEvents, lastHandoff>>

httpVars == <<mp4Bytes, rq>>

catVars == <<listing>>

nonIngest == <<watchVars, httpVars, catVars>>

vars == <<ingestVars, watchVars, httpVars, catVars>>

\* VideoHandler(debounce=2.0): the delay of a debounce timer, in clock ticks
Debounce == 2

TimerIds == 1..MaxEvents

\* a Timer object that was not created yet
NoTimer == [path |-> NoPath, st |-> "unused", left |-> 0]

NoHandoff == [path |-> NoPath, by |-> "none", age |-> Debounce]

\* range_header is None: the request carried no Range header
NoHeader == <<[k |-> "None", v |-> 0]>>

\* no /video request in flight
NoRequest ==
  [pc |-> "none", status |-> 0, size |-> 0, start |-> 0, end |-> 0,
   clen |-> 0, remaining |-> 0, pos |-> 0, sent |-> 0, maxRead |-> 0,
   hdr |-> NoHeader]

\* the title of an empty catalog: latest_title() returns None
NoTitle == ""

\* no /media or /current request in flight
NoListing ==
  [pc |-> "none", status |-> 0, files |-> <<>>, title |-> NoTitle,
   processing |-> FALSE, subtitle |-> FALSE]

\* dst_mp4 = os.path.join(MEDIA_DIR, name, f"{name}.mp4")
DstMp4(name) == [dir |-> name, file |-> name, ext |-> ".mp4"]

\* An ffmpeg command line, by its options: -i, -c, -c:v, -c:a, -ac, -b:a,
\* -ar, -movflags and the output file ("" for an option that is not given).
NoCmd ==
  [input |-> NoPath, c |-> "", cv |-> "", ca |-> "", ac |-> "", ba |-> "",
   ar |-> "", movflags |-> "", out |-> DstMp4("")]

\* The record of a worker that is blocked in _PROCESS_Q.get().
IdleJob ==
  [pc |-> "idle", path |-> NoPath, last_size |-> -1,
   toolOk |-> FALSE, acodec |-> "unset", cmd |-> NoCmd,
   trc |-> "none", hrc |-> "none", has_subs |-> FALSE, xrc |-> "none",
   sizes |-> <<>>, grew |-> FALSE, vanished |-> FALSE,
   ran |-> {}, removed |-> FALSE, raised |-> FALSE,
   dirBefore |-> FALSE, srcAtRun |-> FALSE,
   srcTouched |-> FALSE, dirDeleted |-> FALSE]

InitIngest ==
  /\ uploaded = {}
  /\ fsize = [p \in Paths |-> 0]
  /\ nUploads = 0
  /\ mediaDirs = {}
  /\ mtime = [t \in Titles |-> 0]
  /\ mp4 = {}
  /\ vtt = {}
  /\ hls = {}
  /\ PROCESS_Q = <<>>
  /\ QUEUED = {}
  /\ wk = [w \in Workers |-> IdleJob]
  /\ nEnq = 0
  /\ accepted = <<>>
  /\ started = <<>>

InitWatch ==
  /\ tobj = [i \in TimerIds |-> NoTimer]
  /\ timers = [p \in Paths |-> 0]
  /\ nTimers = 0
  /\ age = [p \in Paths |-> Debounce]
  /\ nEvents = 0
  /\ lastHandoff = NoHandoff

InitHttp ==
  /\ mp4Bytes = [t \in Titles |-> 0]
  /\ rq = NoRequest

InitCatalog == listing = NoListing

\* the state after import: empty directories, empty queue, idle worker
Init == InitIngest /\ InitWatch /\ InitHttp /\ InitCatalog


\* ------------------------------------------------------- the intake directory
\* A worker between _PROCESS_Q.get() and the end of its finally block.
Busy(w) == wk[w].pc # "idle"

\* History bookkeeping: another actor created or removed the source of a
\* running job (srcTouched), or removed its title directory (dirDeleted).

MarkPath(p) ==
  [w \in Workers |->
     IF Busy(w) /\ wk[w].path = p
     THEN [wk[w] EXCEPT !.srcTouched = TRUE] ELSE wk[w]]

MarkTitle(t) ==
  [w \in Workers |->
     IF Busy(w) /\ TitleOf(wk[w].path) = t
     THEN [wk[w] EXCEPT !.dirDeleted = TRUE] ELSE wk[w]]

\* upload_endpoint: open(dest, "wb") creates the file (empty) in UPLOADS_DIR;
\* _unique_dest has made sure no file of that name exists.
FsCreate(p) ==
  /\ p \notin uploaded
  /\ nUploads < MaxUploads
  /\ uploaded' = uploaded \cup {p}
  /\ fsize' = [fsize EXCEPT ![p] = 0]
  /\ nUploads' = nUploads + 1
  /\ wk' = MarkPath(p)
  /\ UNCHANGED <<mediaDirs, mtime, mp4, vtt, hls, PROCESS_Q, QUEUED, nEnq, accepted, started>>
  /\ UNCHANGED nonIngest

\* upload_endpoint: shutil.copyfileobj / f.write(chunk) appends to the file.
FsGrow(p) ==
  /\ p \in uploaded
  /\ fsize[p] < MaxSize
  /\ fsize' = [fsize EXCEPT ![p] = @ + 1]
  /\ UNCHANGED <<uploaded, nUploads, mediaDirs, mtime, mp4, vtt, hls, PROCESS_Q, QUEUED,
                 wk, nEnq, accepted, started>>
  /\ UNCHANGED nonIngest

\* upload_endpoint: a failed remote download removes dest again (os.remove(dest));
\* the same step stands for any other actor removing a file of UPLOADS_DIR.
FsRemove(p) ==
  /\ p \in uploaded
  /\ uploaded' = uploaded \ {p}
  /\ fsize' = [fsize EXCEPT ![p] = 0]
  /\ wk' = MarkPath(p)
  /\ UNCHANGED <<nUploads, mediaDirs, mtime, mp4, vtt, hls, PROCESS_Q, QUEUED,
                 nEnq, accepted, started>>
  /\ UNCHANGED nonIngest

\* ------------------------------------------------------------- the ingest queue
\* _enqueue without its dedup test (used to test the claims against a broken queue)
EnqueueNoDedup(p) ==
  /\ nEnq' = nEnq + 1
  /\ QUEUED' = QUEUED \cup {p}
  /\ PROCESS_Q' = Append(PROCESS_Q, p)
  /\ accepted' = Append(accepted, p)
  /\ UNCHANGED <<uploaded, fsize, nUploads, mediaDirs, mtime, mp4, vtt, hls, wk, started>>

\* an _enqueue that never takes a path a second time
EnqueueOnce(p) ==
  /\ nEnq' = nEnq + 1
  /\ IF p \in QUEUED \/ \E i \in DOMAIN accepted : accepted[i] = p
     THEN UNCHANGED <<QUEUED, PROCESS_Q, accepted>>
     ELSE /\ QUEUED' = QUEUED \cup {p}
          /\ PROCESS_Q' = Append(PROCESS_Q, p)
          /\ accepted' = Append(accepted, p)
  /\ UNCHANGED <<uploaded, fsize, nUploads, mediaDirs, mtime, mp4, vtt, hls, wk, started>>

\* _enqueue(path): the whole body runs under _Q_LOCK.
Enqueue(p) ==
  /\ nEnq' = nEnq + 1
  /\ IF p \in QUEUED
     THEN UNCHANGED <<QUEUED, PROCESS_Q, accepted>>
     ELSE /\ QUEUED' = QUEUED \cup {p}
          /\ PROCESS_Q' = Append(PROCESS_Q, p)
          /\ accepted' = Append(accepted, p)
  /\ UNCHANGED <<uploaded, fsize, nUploads, mediaDirs, mtime, mp4, vtt, hls, wk, started>>

\* _maybe_process, called by an event handler or a Timer thread, calls
\* _enqueue(p) (the watcher's own state is followed in WatchSpec)
Produce(p) ==
  /\ nEnq < MaxEnqueues
  /\ Enqueue(p)
  /\ UNCHANGED nonIngest

\* a worker that takes the newest entry instead of the oldest
WGetNewest(w) ==
  /\ wk[w].pc = "idle"
  /\ PROCESS_Q # <<>>
  /\ LET path == PROCESS_Q[Len(PROCESS_Q)] IN
       /\ PROCESS_Q' = SubSeq(PROCESS_Q, 1, Len(PROCESS_Q) - 1)
       /\ started' = Append(started, path)
       /\ wk' = [wk EXCEPT ![w] = [IdleJob EXCEPT !.pc = "poll", !.path = path]]
  /\ UNCHANGED <<uploaded, fsize, nUploads, mediaDirs, mtime, mp4, vtt, hls, QUEUED, nEnq, accepted>>
  /\ UNCHANGED nonIngest

\* _worker: path = _PROCESS_Q.get(); last_size = -1
WGet(w) ==
  /\ wk[w].pc = "idle"
  /\ PROCESS_Q # <<>>
  /\ LET path == Head(PROCESS_Q) IN
       /\ PROCESS_Q' = Tail(PROCESS_Q)
       /\ started' = Append(started, path)
       /\ wk' = [wk EXCEPT ![w] = [IdleJob EXCEPT !.pc = "poll", !.path = path,
                                                  !.last_size = -1]]
  /\ UNCHANGED <<uploaded, fsize, nUploads, mediaDirs, mtime, mp4, vtt, hls, QUEUED, nEnq, accepted>>
  /\ UNCHANGED nonIngest

\* History: the value the previous size read of the job returned (-1 when
\* there was none) and the value this one returns.
LastTwo(sizes, size) == <<IF sizes = <<>> THEN -1 ELSE sizes[2], size>>

\* a stabilize loop that is content with the first size it reads
WPollOnce(w) ==
  /\ wk[w].pc = "poll"
  /\ LET j == wk[w] IN
       wk' = [wk EXCEPT ![w] =
                IF j.path \notin uploaded
                THEN [j EXCEPT !.pc = "process", !.vanished = TRUE]
                ELSE [j EXCEPT !.pc = "process", !.last_size = fsize[j.path],
                               !.sizes = LastTwo(@, fsize[j.path])]]
  /\ UNCHANGED <<uploaded, fsize, nUploads, mediaDirs, mtime, mp4, vtt, hls,
                 PROCESS_Q, QUEUED, nEnq, accepted, started>>
  /\ UNCHANGED nonIngest

\* _worker: one round of the stabilize loop: getsize, the two breaks, and
\* otherwise last_size = size; time.sleep(2).  Both breaks fall through to
\* process(path).  History: sizes holds the values the last two calls of
\* getsize returned for this job, grew tells that two successive calls
\* returned different values, vanished that getsize found the file missing;
\* they are kept until process has begun.
WPoll(w) ==
  /\ wk[w].pc = "poll"
  /\ LET j == wk[w] IN
       wk' = [wk EXCEPT ![w] =
                IF j.path \notin uploaded
                THEN [j EXCEPT !.pc = "process", !.vanished = TRUE]
                ELSE IF fsize[j.path] = j.last_size
                THEN [j EXCEPT !.pc = "process", !.sizes = LastTwo(@, fsize[j.path])]
                ELSE [j EXCEPT !.last_size = fsize[j.path],
                               !.sizes = LastTwo(@, fsize[j.path]),
                               !.grew = j.sizes # <<>>]]
  /\ UNCHANGED <<uploaded, fsize, nUploads, mediaDirs, mtime, mp4, vtt, hls,
                 PROCESS_Q, QUEUED, nEnq, accepted, started>>
  /\ UNCHANGED nonIngest

\* ------------------------------------------------------------ the pipeline
\* The clock of the file system, as far as list_media_dirs can tell: the
\* newest modification time among the title directories other than t.
Newest(t) ==
  LET s == {mtime[u] : u \in mediaDirs \ {t}} IN
    IF s = {} THEN 0 ELSE CHOOSE m \in s : \A x \in s : x <= m

\* An entry is created in directory t (or t itself is created): t gets a
\* modification time later than that of every other title directory.
Touch(t) == [mtime EXCEPT ![t] = Newest(t) + 1]

\* run(cmd): the exit status of an external tool.  A tool that could not open
\* its input or create its output exits non-zero; one that could may still
\* fail.  A failing tool is taken to leave no output behind.
Rc(canRun) == IF canRun THEN {"ok", "fail"} ELSE {"fail"}

\* what ffprobe prints for the first audio stream (out.strip())
Codecs == {"aac", "ac3", ""}

\* what the subtitle ffprobe prints: a JSON object with a non-empty "streams"
\* list, one without, or text json.loads rejects
Metas == {"streams", "nostreams", "garbage"}

\* bool(json.loads(meta_json).get("streams")), False on any exception
HasSubs(meta) == meta = "streams"

\* audio_codec: None if rc else out.strip()
AudioCodec(rc, out) == IF rc = "fail" THEN "None" ELSE out

\* process, lines 120-130: the re-wrap that copies every stream
CopyCmd(src, name) ==
  [input |-> src, c |-> "copy", cv |-> "", ca |-> "", ac |-> "", ba |-> "",
   ar |-> "", movflags |-> "+faststart", out |-> DstMp4(name)]

\* process, lines 133-151: copy the video, re-encode the audio to AAC
ReencodeCmd(src, name) ==
  [input |-> src, c |-> "", cv |-> "copy", ca |-> "aac", ac |-> "2", ba |-> "128k",
   ar |-> "48000", movflags |-> "+faststart", out |-> DstMp4(name)]

\* a selection that also re-wraps when the probe failed
TranscodeCmdCopyOnFailure(acodec, src, name) ==
  IF acodec \in {"aac", "None"} THEN CopyCmd(src, name) ELSE ReencodeCmd(src, name)

\* process, lines 118-151: if acodec == "aac": ... else: ...
TranscodeCmd(acodec, src, name) ==
  IF acodec = "aac" THEN CopyCmd(src, name) ELSE ReencodeCmd(src, name)

\* process, lines 106-117: the extension test, makedirs(dest_dir), and the
\* launch of the audio probe.
WProcess(w) ==
  /\ wk[w].pc = "process"
  /\ LET j == wk[w]
         name == TitleOf(j.path) IN
       IF Lower(j.path.ext) \notin VideoExts
       THEN /\ wk' = [wk EXCEPT ![w] = [j EXCEPT !.pc = "finally", !.last_size = -1,
                                                !.sizes = <<>>, !.grew = FALSE,
                                                !.vanished = FALSE]]
            /\ UNCHANGED <<mediaDirs, mtime>>
       ELSE /\ mediaDirs' = mediaDirs \cup {name}
            /\ mtime' = IF name \in mediaDirs THEN mtime ELSE Touch(name)
            /\ wk' = [wk EXCEPT ![w] =
                        [j EXCEPT !.pc = "probe", !.last_size = -1, !.sizes = <<>>,
                                  !.grew = FALSE,
                                  !.dirBefore = name \in mediaDirs,
                                  !.ran = @ \cup {"probe"},
                                  !.toolOk = j.path \in uploaded]]
  /\ UNCHANGED <<uploaded, fsize, nUploads, mp4, vtt, hls, PROCESS_Q, QUEUED,
                 nEnq, accepted, started>>
  /\ UNCHANGED nonIngest

\* audio_codec returns (None if rc else out.strip()); process picks the
\* command (lines 118-151) and launches it (line 153).
WProbe(w) ==
  /\ wk[w].pc = "probe"
  /\ \E rc \in Rc(wk[w].toolOk), out \in Codecs :
       LET j == wk[w]
           name == TitleOf(j.path)
           acodec == AudioCodec(rc, out) IN
         wk' = [wk EXCEPT ![w] =
                  [j EXCEPT !.pc = "transcode", !.vanished = FALSE,
                            !.acodec = acodec,
                            !.cmd = TranscodeCmd(acodec, j.path, name),
                            !.ran = @ \cup {"transcode"},
                            !.srcAtRun = j.path \in uploaded,
                            !.toolOk = j.path \in uploaded /\ name \in mediaDirs]]
  /\ UNCHANGED <<uploaded, fsize, nUploads, mediaDirs, mtime, mp4, vtt, hls, PROCESS_Q,
                 QUEUED, nEnq, accepted, started>>
  /\ UNCHANGED nonIngest

\* os.remove(src) (line 192): removes the file, or raises FileNotFoundError,
\* which leaves process and is caught by _worker (line 241).
AfterRemove(j) ==
  IF j.path \in uploaded
  THEN [j EXCEPT !.pc = "finally", !.ran = @ \cup {"cleanup"}, !.removed = TRUE,
                 !.toolOk = FALSE]
  ELSE [j EXCEPT !.pc = "finally", !.ran = @ \cup {"cleanup"}, !.raised = TRUE,
                 !.toolOk = FALSE]

\* a process that cleans up before looking at the transcode's exit status
WTranscodeRemoveFirst(w) ==
  /\ wk[w].pc = "transcode"
  /\ \E rc \in Rc(wk[w].toolOk) :
       LET j == wk[w] IN
         /\ wk' = [wk EXCEPT ![w] = AfterRemove([j EXCEPT !.trc = rc])]
         /\ uploaded' = uploaded \ {j.path}
         /\ fsize' = [fsize EXCEPT ![j.path] = 0]
  /\ UNCHANGED <<nUploads, mediaDirs, mtime, mp4, vtt, hls, PROCESS_Q, QUEUED,
                 nEnq, accepted, started>>
  /\ UNCHANGED nonIngest

\* process, lines 153-161 and generate_hls, lines 74-97: the transcode
\* returns; on failure process returns; otherwise the container is in place
\* (unless its directory was removed while the tool wrote it),
\* makedirs(hls_dir) and the launch of the segmenter.
WTranscode(w) ==
  /\ wk[w].pc = "transcode"
  /\ \E rc \in Rc(wk[w].toolOk) :
       LET j == wk[w]
           name == TitleOf(j.path)
           mp4n == IF name \in mediaDirs THEN mp4 \cup {name} ELSE mp4 IN
         IF rc = "fail"
         THEN /\ wk' = [wk EXCEPT ![w] = [j EXCEPT !.pc = "finally", !.trc = "fail", !.toolOk = FALSE,
                                                  !.acodec = "unset", !.cmd = NoCmd]]
              /\ UNCHANGED <<mp4, mediaDirs, mtime>>
         ELSE /\ mp4' = mp4n
              /\ mediaDirs' = mediaDirs \cup {name}
              /\ mtime' = IF name \in mp4 /\ name \in hls THEN mtime ELSE Touch(name)
              /\ wk' = [wk EXCEPT ![w] =
                          [j EXCEPT !.pc = "hls", !.trc = "ok",
                                    !.acodec = "unset", !.cmd = NoCmd,
                                    !.ran = @ \cup {"hls"},
                                    !.toolOk = name \in mp4n]]
  /\ UNCHANGED <<uploaded, fsize, nUploads, vtt, hls, PROCESS_Q, QUEUED,
                 nEnq, accepted, started>>
  /\ UNCHANGED nonIngest

\* generate_hls, lines 97-101 and process, line 164: the segmenter returns
\* (its status is only logged) and the subtitle probe is launched.
WHls(w) ==
  /\ wk[w].pc = "hls"
  /\ \E rc \in Rc(wk[w].toolOk) :
       LET j == wk[w]
           name == TitleOf(j.path) IN
         /\ hls' = IF rc = "ok" /\ name \in mediaDirs THEN hls \cup {name} ELSE hls
         /\ wk' = [wk EXCEPT ![w] =
                     [j EXCEPT !.pc = "subprobe", !.hrc = rc,
                               !.ran = @ \cup {"subprobe"},
                               !.toolOk = j.path \in uploaded]]
  /\ UNCHANGED <<uploaded, fsize, nUploads, mediaDirs, mtime, mp4, vtt, PROCESS_Q, QUEUED,
                 nEnq, accepted, started>>
  /\ UNCHANGED nonIngest

\* process, lines 164-192: the subtitle probe returns (rc2 is not looked at),
\* has_subs is computed; with subtitles the extraction is launched, without
\* them the source is removed.
WSubProbe(w) ==
  /\ wk[w].pc = "subprobe"
  /\ \E meta \in (IF wk[w].toolOk THEN Metas ELSE {"nostreams", "garbage"}) :
       LET j == wk[w]
           name == TitleOf(j.path) IN
         IF HasSubs(meta)
         THEN /\ wk' = [wk EXCEPT ![w] =
                          [j EXCEPT !.pc = "extract", !.has_subs = TRUE,
                                    !.ran = @ \cup {"extract"},
                                    !.toolOk = j.path \in uploaded /\ name \in mediaDirs]]
              /\ UNCHANGED <<uploaded, fsize>>
         ELSE /\ wk' = [wk EXCEPT ![w] = AfterRemove(j)]
              /\ uploaded' = uploaded \ {j.path}
              /\ fsize' = [fsize EXCEPT ![j.path] = 0]
  /\ UNCHANGED <<nUploads, mediaDirs, mtime, mp4, vtt, hls, PROCESS_Q, QUEUED,
                 nEnq, accepted, started>>
  /\ UNCHANGED nonIngest

\* process, lines 185-192: the extraction returns (its status is only
\* logged) and the source is removed.
WExtract(w) ==
  /\ wk[w].pc = "extract"
  /\ \E rc \in Rc(wk[w].toolOk) :
       LET j == wk[w]
           name == TitleOf(j.path) IN
         /\ vtt' = IF rc = "ok" /\ name \in mediaDirs THEN vtt \cup {name} ELSE vtt
         /\ mtime' = IF rc = "ok" /\ name \in mediaDirs /\ name \notin vtt
                     THEN Touch(name) ELSE mtime
         /\ wk' = [wk EXCEPT ![w] = AfterRemove([j EXCEPT !.xrc = rc])]
         /\ uploaded' = uploaded \ {j.path}
         /\ fsize' = [fsize EXCEPT ![j.path] = 0]
  /\ UNCHANGED <<nUploads, mediaDirs, mp4, hls, PROCESS_Q, QUEUED, nEnq, accepted, started>>
  /\ UNCHANGED nonIngest

\* a worker whose finally block forgets the pending set
WFinallyLeak(w) ==
  /\ wk[w].pc = "finally"
  /\ wk' = [wk EXCEPT ![w] = IdleJob]
  /\ UNCHANGED <<uploaded, fsize, nUploads, mediaDirs, mtime, mp4, vtt, hls, PROCESS_Q,
                 QUEUED, nEnq, accepted, started>>
  /\ UNCHANGED nonIngest

\* _worker, lines 241-246: the except clause has logged whatever process
\* raised; finally: _QUEUED.discard(path) under _Q_LOCK, task_done(), and
\* back to _PROCESS_Q.get().
WFinally(w) ==
  /\ wk[w].pc = "finally"
  /\ QUEUED' = QUEUED \ {wk[w].path}
  /\ wk' = [wk EXCEPT ![w] = IdleJob]
  /\ UNCHANGED <<uploaded, fsize, nUploads, mediaDirs, mtime, mp4, vtt, hls, PROCESS_Q,
                 nEnq, accepted, started>>
  /\ UNCHANGED nonIngest

\* ------------------------------------------------------------------ catalog
\* current(): "processing" and "subtitle" of a title
Processing(t) == t \notin mp4
Subtitle(t) == t \in vtt

\* list_media_dirs, line 322: the entries of MEDIA_DIR that are directories
\* (as a set: os.listdir returns them in an order of its own)
ListMediaDirs == mediaDirs

\* the orders in which os.listdir may return the members of S
Listings(S) ==
  {ls \in [1..Cardinality(S) -> S] : \A i, j \in DOMAIN ls : ls[i] = ls[j] => i = j}

\* every order of every set of titles
AllListings == UNION {Listings(S) : S \in SUBSET Titles}

\* a sort that puts the oldest directory first
RECURSIVE InsertAscending(_, _)
InsertAscending(d, sorted) ==
  IF sorted = <<>> THEN <<d>>
  ELSE IF mtime[Head(sorted)] <= mtime[d]
  THEN <<Head(sorted)>> \o InsertAscending(d, Tail(sorted))
  ELSE <<d>> \o sorted

RECURSIVE SortOldestFirst(_)
SortOldestFirst(dirs) ==
  IF dirs = <<>> THEN <<>>
  ELSE InsertAscending(dirs[Len(dirs)], SortOldestFirst(SubSeq(dirs, 1, Len(dirs) - 1)))

\* list.sort is stable, also with reverse=True: d goes behind every entry
\* whose key is not smaller than its own.
RECURSIVE InsertByMtime(_, _)
InsertByMtime(d, sorted) ==
  IF sorted = <<>> THEN <<d>>
  ELSE IF mtime[Head(sorted)] >= mtime[d]
  THEN <<Head(sorted)>> \o InsertByMtime(d, Tail(sorted))
  ELSE <<d>> \o sorted

\* list_media_dirs, line 323: dirs.sort(key=getmtime, reverse=True)
RECURSIVE SortByMtime(_)
SortByMtime(dirs) ==
  IF dirs = <<>> THEN <<>>
  ELSE InsertByMtime(dirs[Len(dirs)], SortByMtime(SubSeq(dirs, 1, Len(dirs) - 1)))

\* latest_title(), given the order ls of os.listdir
LatestTitle(ls) ==
  LET dirs == SortByMtime(ls) IN
    IF dirs # <<>> THEN dirs[1] ELSE NoTitle

\* GET /media: {"files": list_media_dirs()}
ListMedia(ls) ==
  /\ listing.pc = "none"
  /\ ls \in Listings(ListMediaDirs)
  /\ listing' = [NoListing EXCEPT !.pc = "media", !.status = 200,
                                  !.files = SortByMtime(ls)]
  /\ UNCHANGED <<ingestVars, watchVars, httpVars>>

\* GET /current: 404 without a title, else the state of the latest title
Current(ls) ==
  /\ listing.pc = "none"
  /\ ls \in Listings(ListMediaDirs)
  /\ LET title == LatestTitle(ls) IN
       listing' =
         IF title = NoTitle
         THEN [NoListing EXCEPT !.pc = "current", !.status = 404]
         ELSE [NoListing EXCEPT !.pc = "current", !.status = 200, !.title = title,
                                !.processing = Processing(title),
                                !.subtitle = Subtitle(title)]
  /\ UNCHANGED <<ingestVars, watchVars, httpVars>>

\* the response was delivered; the next request
CatalogEnd ==
  /\ listing.pc # "none"
  /\ listing' = NoListing
  /\ UNCHANGED <<ingestVars, watchVars, httpVars>>

\* delete_media(title): 404 when the directory is missing, else shutil.rmtree
DeleteMedia(t) ==
  /\ t \in mediaDirs
  /\ mediaDirs' = mediaDirs \ {t}
  /\ mtime' = [mtime EXCEPT ![t] = 0]
  /\ mp4' = mp4 \ {t}
  /\ vtt' = vtt \ {t}
  /\ hls' = hls \ {t}
  /\ wk' = MarkTitle(t)
  /\ UNCHANGED <<uploaded, fsize, nUploads, PROCESS_Q, QUEUED, nEnq, accepted, started>>
  /\ UNCHANGED nonIngest

\* ------------------------------------------------------------- file watcher
Min(a, b) == IF a < b THEN a ELSE b

\* VideoHandler._maybe_process(path): pops the path's entry of _timers (the
\* Timer itself is not cancelled) and hands a video path to _enqueue.  `by`
\* tells the history who called: a Timer thread or an event handler.
MaybeProcess(p, by) ==
  /\ timers' = [timers EXCEPT ![p] = 0]
  /\ IF Lower(p.ext) \in VideoExts
     THEN /\ Enqueue(p)
          /\ lastHandoff' = [path |-> p, by |-> by, age |-> age[p]]
     ELSE UNCHANGED <<ingestVars, lastHandoff>>

\* Timer.cancel() sets the timer's finished event: a timer still waiting will
\* not call its function; one that already found the event clear, or that
\* finished, is not affected.
Cancelled(tm) == IF tm.st = "waiting" THEN [tm EXCEPT !.st = "cancelled"] ELSE tm

\* VideoHandler._schedule(path): pop and cancel the recorded timer, start a
\* new one and record it.
Schedule(p) ==
  LET existing == timers[p]
      id == nTimers + 1
      t1 == IF existing # 0
            THEN [tobj EXCEPT ![existing] = Cancelled(tobj[existing])]
            ELSE tobj IN
    /\ tobj' = [t1 EXCEPT ![id] = [path |-> p, st |-> "waiting", left |-> Debounce]]
    /\ nTimers' = id
    /\ timers' = [timers EXCEPT ![p] = id]

\* on_created(event)
OnCreated(p, isdir) ==
  /\ nEvents < MaxEvents
  /\ nEvents' = nEvents + 1
  /\ IF ~isdir
     THEN Schedule(p) /\ age' = [age EXCEPT ![p] = 0]
     ELSE UNCHANGED <<tobj, nTimers, timers, age>>
  /\ UNCHANGED <<ingestVars, lastHandoff, httpVars, catVars>>

\* on_modified(event)
OnModified(p, isdir) ==
  /\ nEvents < MaxEvents
  /\ nEvents' = nEvents + 1
  /\ IF ~isdir
     THEN Schedule(p) /\ age' = [age EXCEPT ![p] = 0]
     ELSE UNCHANGED <<tobj, nTimers, timers, age>>
  /\ UNCHANGED <<ingestVars, lastHandoff, httpVars, catVars>>

\* on_closed(event), with event.event_type == "closed"
OnClosed(p, isdir) ==
  /\ nEvents < MaxEvents
  /\ nEvents' = nEvents + 1
  /\ IF ~isdir
     THEN MaybeProcess(p, "event")
     ELSE UNCHANGED <<ingestVars, timers, lastHandoff>>
  /\ UNCHANGED <<tobj, nTimers, age, httpVars, catVars>>

\* on_moved(event), p being event.dest_path
OnMoved(p, isdir) ==
  /\ nEvents < MaxEvents
  /\ nEvents' = nEvents + 1
  /\ IF ~isdir
     THEN MaybeProcess(p, "event")
     ELSE UNCHANGED <<ingestVars, timers, lastHandoff>>
  /\ UNCHANGED <<tobj, nTimers, age, httpVars, catVars>>

\* threading.Timer.run, first half: finished.wait(interval) timed out and
\* finished.is_set() was found false.
TimerExpire(i) ==
  /\ tobj[i].st = "waiting"
  /\ tobj[i].left = 0
  /\ tobj' = [tobj EXCEPT ![i].st = "fired"]
  /\ UNCHANGED <<ingestVars, timers, nTimers, age, nEvents, lastHandoff, httpVars, catVars>>

\* threading.Timer.run, second half: self.function(*args), which is
\* _maybe_process(path).
TimerCall(i) ==
  /\ tobj[i].st = "fired"
  /\ tobj' = [tobj EXCEPT ![i].st = "done"]
  /\ MaybeProcess(tobj[i].path, "timer")
  /\ UNCHANGED <<nTimers, age, nEvents, httpVars, catVars>>

\* One unit of time passes (Debounce units make the delay of a timer).
Tick ==
  /\ \/ \E p \in Paths : age[p] < Debounce
     \/ \E i \in TimerIds : tobj[i].st = "waiting" /\ tobj[i].left > 0
  /\ age' = [p \in Paths |-> Min(age[p] + 1, Debounce)]
  /\ tobj' = [i \in TimerIds |->
                IF tobj[i].st = "waiting" /\ tobj[i].left > 0
                THEN [tobj[i] EXCEPT !.left = @ - 1] ELSE tobj[i]]
  /\ UNCHANGED <<ingestVars, timers, nTimers, nEvents, lastHandoff, httpVars, catVars>>

\* ------------------------------------------------------------ range streamer
Max(a, b) == IF a > b THEN a ELSE b

\* the read size of chunk_iter: 1024 * 1024
CHUNK == 1024 * 1024

\* A Range header is modelled as the sequence of its lexical pieces: the unit
\* prefix "bytes=", a run of digits (with its value), a dash, or other text.
TokUnit == [k |-> "bytes=", v |-> 0]
TokDash == [k |-> "-", v |-> 0]
TokJunk == [k |-> "text", v |-> 0]
TokNum(n) == [k |-> "num", v |-> n]

\* range_header.replace("bytes=", "")
StripUnit(h) == SelectSeq(h, LAMBDA t : t.k # "bytes=")

\* str.split("-")
RECURSIVE SplitDash(_)
SplitDash(h) ==
  IF \A i \in DOMAIN h : h[i].k # "-"
  THEN <<h>>
  ELSE LET i == CHOOSE x \in DOMAIN h : h[x].k = "-" /\ \A y \in 1..(x - 1) : h[y].k # "-"
       IN <<SubSeq(h, 1, i - 1)>> \o SplitDash(SubSeq(h, i + 1, Len(h)))

\* int(s) succeeds on a run of digits and raises ValueError otherwise
IsInt(part) == Len(part) = 1 /\ part[1].k = "num"
IntOf(part) == part[1].v

\* stream_video(title, range_header); `given` is range_header is not None.
\* An exception that leaves the handler is answered with status 500.
StreamVideo(t, given, h) ==
  /\ rq.pc = "none"
  /\ LET size == mp4Bytes[t]
         parts == SplitDash(StripUnit(h))
         Req == [NoRequest EXCEPT !.hdr = IF given THEN h ELSE NoHeader] IN
       rq' =
         IF t \notin mp4
         THEN [Req EXCEPT !.pc = "done", !.status = 404]
         ELSE IF ~given
         THEN [Req EXCEPT !.pc = "file_iter", !.status = 200, !.size = size,
                                !.clen = size]
         ELSE IF \/ Len(parts) # 2
                 \/ ~IsInt(parts[1])
                 \/ parts[2] # <<>> /\ ~IsInt(parts[2])
         THEN [Req EXCEPT !.pc = "done", !.status = 500, !.size = size]
         ELSE LET start == IntOf(parts[1])
                  end0 == IF parts[2] # <<>> THEN IntOf(parts[2]) ELSE size - 1
                  end == Min(end0, size - 1)
                  chunk == end - start + 1
              IN [Req EXCEPT !.pc = "chunk_iter", !.status = 206, !.size = size,
                                   !.start = start, !.end = end, !.clen = chunk,
                                   !.remaining = chunk, !.pos = start]
  /\ UNCHANGED <<ingestVars, watchVars, mp4Bytes, catVars>>

\* file_iter: the whole file is sent (line by line)
FileIter ==
  /\ rq.pc = "file_iter"
  /\ rq' = [rq EXCEPT !.pc = "done", !.sent = rq.size, !.pos = rq.size]
  /\ UNCHANGED <<ingestVars, watchVars, mp4Bytes, catVars>>

\* chunk_iter: one round of `while remaining`.  f.read(n) returns at most n
\* bytes, all the rest of the file for n = -1, and raises ValueError for
\* n < -1 (io.BufferedReader).
ChunkIter ==
  /\ rq.pc = "chunk_iter"
  /\ LET n == Min(CHUNK, rq.remaining)
         avail == Max(0, rq.size - rq.pos)
         len == IF n = -1 THEN avail ELSE Min(n, avail) IN
       rq' =
         IF rq.remaining = 0 THEN [rq EXCEPT !.pc = "done"]
         ELSE IF n < -1 THEN [rq EXCEPT !.pc = "error"]
         ELSE IF len = 0 THEN [rq EXCEPT !.pc = "done"]
         ELSE [rq EXCEPT !.remaining = @ - len, !.pos = @ + len, !.sent = @ + len,
                         !.maxRead = Max(@, len)]
  /\ UNCHANGED <<ingestVars, watchVars, mp4Bytes, catVars>>

\* the response was delivered (or its iterator failed); the next request
RequestEnd ==
  /\ rq.pc \in {"done", "error"}
  /\ rq' = NoRequest
  /\ UNCHANGED <<ingestVars, watchVars, mp4Bytes, catVars>>

\* the file sizes and the offsets the requests are drawn from
Sizes == (0..MaxByte) \cup {CHUNK, CHUNK + 1, 2 * CHUNK + 1}
Offsets == (0..(MaxByte + 1)) \cup {CHUNK, 2 * CHUNK + 2}

\* well-formed headers: bytes=<start>- and bytes=<start>-<end>
RangeHeaders ==
  {<<TokUnit, TokNum(a), TokDash>> : a \in Offsets}
    \cup {<<TokUnit, TokNum(a), TokDash, TokNum(b)>> : a \in Offsets, b \in Offsets}

\* malformed ones: no dash, two dashes, empty start, non-numeric start or end
BadHeaders ==
  {<<TokUnit, TokNum(1)>>,
   <<TokUnit, TokNum(0), TokDash, TokNum(1), TokDash, TokNum(2)>>,
   <<TokUnit, TokDash, TokNum(1)>>,
   <<TokUnit, TokJunk, TokDash, TokNum(1)>>,
   <<TokUnit, TokNum(0), TokDash, TokJunk>>}

\* -------------------------------------------------------------- specification
WorkerStep(w) ==
  \/ WGet(w)
  \/ WPoll(w)
  \/ WProcess(w)
  \/ WProbe(w)
  \/ WTranscode(w)
  \/ WHls(w)
  \/ WSubProbe(w)
  \/ WExtract(w)
  \/ WFinally(w)

\* The ingest side.  Files the watcher does not hand over are never looked at
\* by the worker, so only the video files of the intake directory are followed.
Next ==
  \/ \E p \in VideoPaths : FsCreate(p)
  \/ \E p \in VideoPaths : FsGrow(p)
  \/ \E p \in VideoPaths : FsRemove(p)
  \/ \E p \in VideoPaths : Produce(p)
  \/ \E w \in Workers : WorkerStep(w)
  \/ \E t \in Titles : DeleteMedia(t)

Spec == Init /\ [][Next]_vars

\* The watcher: the observer's event thread, the Timer threads and the clock.
WatchNext ==
  \/ \E p \in Paths, d \in BOOLEAN : OnCreated(p, d)
  \/ \E p \in Paths, d \in BOOLEAN : OnModified(p, d)
  \/ \E p \in Paths, d \in BOOLEAN : OnClosed(p, d)
  \/ \E p \in Paths, d \in BOOLEAN : OnMoved(p, d)
  \/ \E i \in TimerIds : TimerExpire(i)
  \/ \E i \in TimerIds : TimerCall(i)
  \/ Tick

WatchSpec == Init /\ [][WatchNext]_vars

\* The catalog holds some published titles, each container of some size.
RangeInit ==
  /\ InitWatch
  /\ uploaded = {}
  /\ fsize = [p \in Paths |-> 0]
  /\ nUploads = 0
  /\ mediaDirs \in SUBSET Titles
  /\ mtime = [t \in Titles |-> IF t \in mediaDirs THEN 1 ELSE 0]
  /\ mp4 \in SUBSET mediaDirs
  /\ vtt = {}
  /\ hls = {}
  /\ PROCESS_Q = <<>>
  /\ QUEUED = {}
  /\ wk = [w \in Workers |-> IdleJob]
  /\ nEnq = 0
  /\ accepted = <<>>
  /\ started = <<>>
  /\ mp4Bytes \in {f \in [Titles -> Sizes] : \A t \in Titles : t \notin mp4 => f[t] = 0}
  /\ rq = NoRequest
  /\ listing = NoListing

\* The HTTP side: requests to /video/{title}, one at a time.
RangeNext ==
  \/ \E t \in Titles : StreamVideo(t, FALSE, <<>>)
  \/ \E t \in Titles, h \in RangeHeaders \cup BadHeaders : StreamVideo(t, TRUE, h)
  \/ FileIter
  \/ ChunkIter
  \/ RequestEnd

RangeSpec == RangeInit /\ [][RangeNext]_vars

\* The catalog holds some title directories, with some modification times,
\* containers and subtitle files.
CatalogInit ==
  /\ InitWatch
  /\ InitHttp
  /\ InitCatalog
  /\ uploaded = {}
  /\ fsize = [p \in Paths |-> 0]
  /\ nUploads = 0
  /\ mediaDirs \in SUBSET Titles
  /\ mtime \in {f \in [Titles -> 0..MaxTime] : \A t \in Titles : f[t] = 0 <=> t \notin mediaDirs}
  /\ mp4 \in SUBSET mediaDirs
  /\ vtt \in SUBSET mediaDirs
  /\ hls = {}
  /\ PROCESS_Q = <<>>
  /\ QUEUED = {}
  /\ wk = [w \in Workers |-> IdleJob]
  /\ nEnq = 0
  /\ accepted = <<>>
  /\ started = <<>>

\* The HTTP side: requests to /media and /current, one at a time.
CatalogNext ==
  \/ \E ls \in AllListings : ListMedia(ls)
  \/ \E ls \in AllListings : Current(ls)
  \/ CatalogEnd

CatalogSpec == CatalogInit /\ [][CatalogNext]_vars

\* The worker threads are scheduled again and again, and every external tool
\* call returns: a worker that can take a step eventually takes it.  The
\* files of UPLOADS_DIR stop changing because nUploads and fsize are bounded.
LiveSpec == Init /\ [][Next]_vars /\ WF_vars(\E w \in Workers : WorkerStep(w))

\* ------------------------------------------------------------------- claims
\* how often path p occurs in the sequence s
Count(s, p) == Cardinality({i \in DOMAIN s : s[i] = p})

\* the workers whose current job is on path p
RunningOn(p) == {w \in Workers : Busy(w) /\ wk[w].path = p}

\* the positions of a worker inside the per-file routine (stabilize + process)
RoutinePcs == {"poll", "process", "probe", "transcode", "hls", "subprobe", "extract"}

\* the job of worker w has ended (process returned or raised) and its finally
\* block has not run yet
Ended(w) == wk[w].pc = "finally"

\* C1: dedup invariant of the ingest queue.  In every reachable state a path
\* occurs at most once among the FIFO entries plus the running jobs, it is in
\* the pending set exactly when it occurs there, and every accepted enqueue of
\* it has led to exactly one job (started, or still in the FIFO): a call of
\* _enqueue for a pending or running path added nothing.
C1_Dedup ==
  \A p \in Paths :
    /\ Count(PROCESS_Q, p) + Cardinality(RunningOn(p)) <= 1
    /\ (p \in QUEUED) <=> (Count(PROCESS_Q, p) + Cardinality(RunningOn(p)) = 1)
    /\ Count(accepted, p) = Count(started, p) + Count(PROCESS_Q, p)
    /\ Len(accepted) <= nEnq

\* C1 witness: _enqueue was called twice, only one call was accepted, and the
\* accepted path is being processed.
C1_Witness ==
  /\ nEnq = 2
  /\ Len(accepted) = 1
  /\ \E w \in Workers : wk[w].pc = "transcode" /\ wk[w].path = accepted[1]

\* C2: system-wide mutual exclusion.  At most one per-file routine (stabilize
\* + process, hence any probe/transcode/segment/subtitle invocation) is
\* executing in any reachable state.
C2_MutualExclusion ==
  Cardinality({w \in Workers : wk[w].pc \in RoutinePcs}) <= 1

\* C2 witness: a transcode is running while another accepted path waits.
C2_Witness ==
  /\ \E w \in Workers : wk[w].pc = "transcode"
  /\ Len(PROCESS_Q) = 1
  /\ nEnq = 2

\* C3: FIFO ordering.  The paths the workers have started, in the order they
\* started them, followed by the FIFO's content, are the accepted paths in the
\* order of their acceptance: no entry is reordered, skipped or taken twice.
C3_Fifo == accepted = started \o PROCESS_Q

\* C3 witness: two different paths were accepted and both were started.
C3_Witness ==
  /\ Len(started) = 2
  /\ started[1] # started[2]

\* C4: source-file lifecycle.  The pipeline removes a source only in a job
\* whose primary transcode returned success; a job whose transcode succeeded
\* always reaches the removal (whatever segmenting and extraction returned),
\* after which the source is absent unless another actor created it anew; a job
\* whose transcode failed never attempts the removal, and a source that was
\* there when the transcode ran, and that no other actor touched, is still
\* there when the job ends.
C4_SourceLifecycle ==
  \A w \in Workers :
    LET j == wk[w] IN
      /\ j.removed => j.trc = "ok"
      /\ "cleanup" \in j.ran => j.trc = "ok"
      /\ (Ended(w) /\ j.trc = "ok") =>
            /\ "cleanup" \in j.ran
            /\ j.removed \/ j.raised
            /\ j.path \notin uploaded \/ j.srcTouched
      /\ (Ended(w) /\ j.trc = "fail") =>
            /\ ~j.removed
            /\ (j.srcAtRun /\ ~j.srcTouched) => j.path \in uploaded

\* C4 witness: a job ended whose transcode succeeded while both segmenting
\* and subtitle extraction failed, and the pipeline removed its source.
C4_Witness ==
  \E w \in Workers :
    /\ Ended(w)
    /\ wk[w].trc = "ok" /\ wk[w].hrc = "fail" /\ wk[w].xrc = "fail"
    /\ wk[w].removed
    /\ wk[w].path \notin uploaded

\* C5: a transcode failure leaves the source in the intake directory, runs
\* none of the later stages, and produces no entry in the published-media
\* directory for a title that was not there before the job.
C5_NoEntryOnFailure ==
  \A w \in Workers :
    LET j == wk[w] IN
      (Ended(w) /\ j.trc = "fail" /\ j.srcAtRun /\ ~j.srcTouched) =>
        /\ j.path \in uploaded
        /\ j.ran \cap {"hls", "subprobe", "extract", "cleanup"} = {}
        /\ ~j.dirBefore => TitleOf(j.path) \notin ListMediaDirs

\* C6: once the primary transcode succeeded, whatever segmenting, subtitle
\* probing and extraction return, the job ends (when no other actor touched
\* its source or deleted its title) with the progressive container present
\* (ready, processing = false), the source removed, and the subtitle status
\* true exactly when the extraction succeeded.
C6_BestEffort ==
  \A w \in Workers :
    LET j == wk[w]
        t == TitleOf(j.path) IN
      (Ended(w) /\ j.trc = "ok" /\ ~j.srcTouched /\ ~j.dirDeleted) =>
        /\ ~Processing(t)
        /\ j.path \notin uploaded
        /\ Subtitle(t) <=> (j.xrc = "ok")

\* C7: error containment and queue liveness.  Under LiveSpec every path in
\* the pending set eventually leaves it, whatever the outcome of its job
\* (success, failure, vanished file, exception out of process): at every
\* moment there is a later one at which the path is not pending, which is
\* (p \in QUEUED) ~> (p \notin QUEUED).
C7_Liveness == \A p \in Paths : []<>(p \notin QUEUED)

\* C7 witness: process raised (os.remove found the source gone), the worker
\* is in its finally block, and the next path is waiting in the FIFO.
C7_Witness ==
  \E w \in Workers :
    /\ Ended(w)
    /\ wk[w].raised
    /\ wk[w].path \in QUEUED
    /\ PROCESS_Q # <<>>

\* C8: debounce.  A hand-off of a path to _enqueue made by a timer happens
\* only when no create/modify event for that path occurred during the
\* debounce delay before it.
C8_Debounce ==
  lastHandoff.by = "timer" => lastHandoff.age >= Debounce

\* C9: RangeRequest invariant.  The range resolved for a 206 response
\* satisfies 0 <= start <= end <= size - 1.
C9_RangeInvariant ==
  rq.status = 206 =>
    /\ 0 <= rq.start
    /\ rq.start <= rq.end
    /\ rq.end <= rq.size - 1

\* C10: range response content.  Without Range: status 200, Content-Length
\* = size, and the whole file is sent.  With a well-formed Range: status 206,
\* Content-Length = end - start + 1, and the chunk iterator terminates having
\* sent exactly that many bytes (the bytes start..end), in reads of at most
\* 1 MiB.
C10_RangeContent ==
  /\ (rq.status = 200 /\ rq.pc = "done") => (rq.clen = rq.size /\ rq.sent = rq.size)
  /\ rq.status = 206 =>
       /\ rq.clen = rq.end - rq.start + 1
       /\ rq.pc # "error"
       /\ rq.maxRead <= CHUNK
       /\ rq.pc = "done" => (rq.sent = rq.clen /\ rq.pos = rq.end + 1)

\* C11: a malformed Range header (no dash, more than one dash, empty or
\* non-numeric start, non-numeric end) is answered with a client error (4xx),
\* never with a server error.
C11_MalformedRange ==
  (rq.pc # "none" /\ rq.hdr \in BadHeaders) => rq.status \in 400..499

\* C12: delete.  Once delete_media(title) has removed the title's subtree,
\* the title is absent from list_media_dirs() and none of its artifacts
\* (container, subtitle, HLS playlist) is found, also when the worker is
\* processing the source of that title while the delete happens.
C12_DeleteAbsent ==
  \A w \in Workers :
    LET t == TitleOf(wk[w].path) IN
      (Busy(w) /\ wk[w].dirDeleted) =>
        /\ t \notin ListMediaDirs
        /\ t \notin mp4
        /\ t \notin vtt
        /\ t \notin hls

\* C13: catalog ordering.  list_media_dirs() returns exactly the title
\* directories, each once, the most recently modified first, so a directory
\* newer than all others comes first; latest_title() is a directory no other
\* is newer than, and there is none (404) exactly when the catalog is empty.
C13_CatalogOrder ==
  /\ listing.pc = "media" =>
       LET files == listing.files IN
         /\ Len(files) = Cardinality(mediaDirs)
         /\ {files[i] : i \in DOMAIN files} = mediaDirs
         /\ \A i, j \in DOMAIN files : i < j => mtime[files[i]] >= mtime[files[j]]
         /\ \A b \in mediaDirs :
              (\A a \in mediaDirs \ {b} : mtime[a] < mtime[b]) => files[1] = b
  /\ listing.pc = "current" =>
       /\ listing.status = 404 <=> mediaDirs = {}
       /\ listing.status = 200 =>
            /\ listing.title \in mediaDirs
            /\ \A a \in mediaDirs : mtime[a] <= mtime[listing.title]

\* C13 witness: two titles, B modified after A, are listed as [B, A].
C13_Witness ==
  /\ listing.pc = "media"
  /\ Len(listing.files) = 2
  /\ mtime[listing.files[1]] > mtime[listing.files[2]]

\* C14: stabilize-before-process.  When the worker is about to call
\* process(path) for a file that every size read found present, the last two
\* size reads, one polling interval apart, returned the same value; a file
\* seen growing is not processed before that.
C14_Stabilize ==
  \A w \in Workers :
    LET j == wk[w] IN
      (j.pc = "process" /\ ~j.vanished) =>
        /\ j.sizes # <<>>
        /\ j.sizes[1] # -1
        /\ j.sizes[2] = j.sizes[1]

\* C14 witness: the file was seen growing and process is called after two
\* successive reads returned 1.
C14_Witness ==
  \E w \in Workers :
    /\ wk[w].pc = "process"
    /\ ~wk[w].vanished
    /\ wk[w].grew
    /\ wk[w].sizes = <<1, 1>>

\* C15: vanished file.  A job whose file was found missing during the
\* stabilize poll is abandoned: no probe or transcode is invoked for it and
\* no title directory is created for it.
C15_VanishedAbandoned ==
  \A w \in Workers :
    LET j == wk[w] IN
      j.vanished =>
        /\ j.ran = {}
        /\ ~j.dirBefore => TitleOf(j.path) \notin ListMediaDirs

\* C16: transcode command selection.  The command process launches carries
\* the fast-start flag and writes to <media>/<title>/<title>.mp4; it is the
\* stream-copy re-wrap (-c copy, nothing re-encoded) exactly when the probed
\* audio codec is "aac"; for any other codec name, an empty result and a
\* failed probe it copies the video and re-encodes the audio to AAC with 2
\* channels, 128k, 48000 Hz.
C16_CommandSelection ==
  \A w \in Workers :
    LET j == wk[w] IN
      j.pc = "transcode" =>
        /\ j.cmd.movflags = "+faststart"
        /\ j.cmd.out = DstMp4(TitleOf(j.path))
        /\ j.cmd.c = "copy" <=> j.acodec = "aac"
        /\ j.acodec = "aac" =>
             j.cmd.cv = "" /\ j.cmd.ca = "" /\ j.cmd.ac = "" /\ j.cmd.ba = "" /\ j.cmd.ar = ""
        /\ j.acodec # "aac" =>
             /\ j.cmd.c = "" /\ j.cmd.cv = "copy" /\ j.cmd.ca = "aac"
             /\ j.cmd.ac = "2" /\ j.cmd.ba = "128k" /\ j.cmd.ar = "48000"

\* C16 witness: the probe failed and the re-encoding command was launched.
C16_Witness ==
  \E w \in Workers :
    /\ wk[w].pc = "transcode"
    /\ wk[w].acodec = "None"
    /\ wk[w].cmd.ca = "aac"

\* C17: a failed audio probe halts the pipeline for the file: no transcode
\* (nor any later stage) is launched after it.
C17_ProbeFailureFatal ==
  \A w \in Workers :
    wk[w].acodec = "None" =>
      wk[w].ran \cap {"transcode", "hls", "subprobe", "extract", "cleanup"} = {}

\* C18: re-enqueue after completion.  In every state the pending set is
\* exactly the paths in the FIFO plus the paths of the jobs that have not
\* finished their finally block (no entry leaks, none leaves early), and
\* every _enqueue of a path that is neither in the FIFO nor running, in
\* particular one whose prior job fully completed, is accepted: the path
\* joins the pending set and the FIFO again.
C18_Requeue ==
  /\ [](QUEUED = {PROCESS_Q[i] : i \in DOMAIN PROCESS_Q}
                   \cup {wk[w].path : w \in {x \in Workers : Busy(x)}})
  /\ [][\A p \in VideoPaths :
         (Produce(p) /\ Count(PROCESS_Q, p) = 0 /\ RunningOn(p) = {})
           => /\ accepted' = Append(accepted, p)
              /\ PROCESS_Q' = Append(PROCESS_Q, p)
              /\ p \in QUEUED']_vars

\* C18 witness: a path whose first job completed was enqueued again and the
\* worker is about to run the processing routine for it a second time.
C18_Witness ==
  \E w \in Workers :
    /\ wk[w].pc = "process"
    /\ Count(started, wk[w].path) = 2

\* C19: timer-map invariant of VideoHandler.  Every timer that was started
\* and has neither fired nor been cancelled is the one recorded in _timers
\* for its path, so each path has at most one such timer.
C19_TimerMap ==
  \A i \in TimerIds :
    tobj[i].st = "waiting" =>
      /\ timers[tobj[i].path] = i
      /\ \A k \in TimerIds :
           (tobj[k].st = "waiting" /\ tobj[k].path = tobj[i].path) => k = i

\* C20: title isolation.  Two distinct intake paths accepted by the queue
\* never map to the same title directory.
C20_TitleIsolation ==
  \A i, k \in DOMAIN accepted :
    accepted[i] # accepted[k] => TitleOf(accepted[i]) # TitleOf(accepted[k])

=============================================================================
